---- MODULE Spec2Model ----
(***************************************************************************)
(* wiki-dump-to-html (src/bin/wiki-dump-to-html/main.rs).                  *)
(*                                                                         *)
(* main reads every input dump with extract_pages, which keeps the pages   *)
(* whose namespace is neither meta-content nor a file, then writes one     *)
(* HTML document: a header, and for every kept page a title, the page's    *)
(* node tree rendered by the recursive write_nodes, and a separator.       *)
(*                                                                         *)
(* The dump decoder and the wikitext parser are external: the records and  *)
(* the nodes they yield are drawn from small input sets when the program   *)
(* asks for the next one.  The written stream `out` is the sequence of     *)
(* fragments handed to the writer; a page text is a sequence of one-byte   *)
(* characters, and a verbatim slice contributes its characters.            *)
(* Diagnostics on stderr (parser warnings) and I/O failures of the writer  *)
(* are outside the model.                                                  *)
(***************************************************************************)
EXTENDS Integers, Sequences, FiniteSets, TLC

VARIABLES
    pc,         \* where main is: "extract", "pages", "render", "done", "failed", "panicked"
    verbose,    \* the --verbose flag
    filesLeft,  \* input files not yet read to their end
    reads,      \* page records the dump decoder has yielded so far
    page,       \* extract_pages: the record the decoder yielded last
    newPages,   \* extract_pages: the local vector of kept pages
    pages,      \* main: the vector of kept pages of all files
    log,        \* stdout: the kind of each classification message printed
    out,        \* the fragments written to index.html, in order
    pageIdx,    \* main: position of the page loop in pages
    stack,      \* the active write_nodes calls, outermost first
    fuel,       \* nodes and list items the wikitext parser may still yield in this run
    kinds       \* the kinds of the nodes met so far in the current page's tree

vars == <<pc, verbose, filesLeft, reads, page, newPages, pages, log, out,
          pageIdx, stack, fuel, kinds>>

----------------------------------------------------------------------------
(* Bounds of the model. *)

MaxFiles == 2

MaxReads == 2

MaxDocNodes == 2

MaxNodes == 3

----------------------------------------------------------------------------
(* Namespace codes, extract_pages. *)

TALK == 1

USER == 2

USER_TALK == 3

FILE == 6

MEDIA_WIKI == 8

TEMPLATE == 10

CATEGORY == 14

CATEGORY_TALK == 15

USER_BLOG_COMMENT == 501

BLOG == 502

MESSAGE_WALL == 1200

THREAD == 1201

MESSAGE_WALL_GREETING == 1202

BOARD == 2000

\* A variant of the match that also treats the user-blog namespace (500,
\* the constant left commented out) as meta-content.
ClassifyUserBlogAsMeta(namespace) ==
    CASE namespace \in {TALK, USER, USER_TALK, MESSAGE_WALL, THREAD,
                        MESSAGE_WALL_GREETING, USER_BLOG_COMMENT, TEMPLATE,
                        CATEGORY, CATEGORY_TALK, BOARD, MEDIA_WIKI, BLOG, 500} -> "meta"
      [] namespace = FILE -> "file"
      [] OTHER -> "content"

\* The match on page.namespace: which arm a namespace code takes.
Classify(namespace) ==
    CASE namespace \in {TALK, USER, USER_TALK, MESSAGE_WALL, THREAD,
                        MESSAGE_WALL_GREETING, USER_BLOG_COMMENT, TEMPLATE,
                        CATEGORY, CATEGORY_TALK, BOARD, MEDIA_WIKI, BLOG} -> "meta"
      [] namespace = FILE -> "file"
      [] OTHER -> "content"

----------------------------------------------------------------------------
(* Inputs: what the dump decoder and the wikitext parser may yield. *)

\* The raw texts: a short one and a long one.
Texts == {<<"a", "<">>, <<"'", "b", "&">>}

\* Namespace codes (u32) the decoder may yield: every code the match names,
\* and codes it does not name.
Namespaces ==
    {TALK, USER, USER_TALK, FILE, MEDIA_WIKI, TEMPLATE, CATEGORY, CATEGORY_TALK,
     USER_BLOG_COMMENT, BLOG, MESSAGE_WALL, THREAD, MESSAGE_WALL_GREETING, BOARD}
    \cup {0, 500}

\* The page records the decoder may yield: the article "P" (namespace 0, the
\* short text), the user blog "Q" (namespace 500, the long text), and under
\* every other namespace a page "R" with either text.
PageInputs ==
    {[title |-> "P", namespace |-> 0, text |-> <<"a", "<">>],
     [title |-> "Q", namespace |-> 500, text |-> <<"'", "b", "&">>]}
    \cup {[title |-> "R", namespace |-> n, text |-> t] :
             n \in Namespaces \ {0, 500}, t \in Texts}

NoPage == [title |-> "", namespace |-> 0, text |-> <<>>]

\* Byte offsets (start, end) a node may carry: within every text, beyond the
\* end of the shorter text.
Spans == {<<0, 2>>, <<1, 3>>}

Levels == {1, 6}

ToggleKinds == {"Bold", "BoldItalic", "Italic"}

Node(kind, level, name, span, kids) ==
    [kind |-> kind, level |-> level, name |-> name,
     start |-> span[1], end |-> span[2], kids |-> kids]

NoNode == Node("none", 0, "", <<0, 0>>, <<>>)

\* The nodes of one kind the parser may yield.
NodeInputs(kind) ==
    CASE kind = "Heading" -> {Node(kind, l, "", <<0, 0>>, <<>>) : l \in Levels}
      [] kind = "Text" -> {Node(kind, 0, "", sp, <<>>) : sp \in Spans}
      [] kind = "Tag" -> {Node(kind, 0, "nowiki", sp, <<"Bold">>) : sp \in Spans}
      [] kind = "syntaxhighlight" -> {Node("Tag", 0, "syntaxhighlight", <<0, 0>>, <<>>)}
      [] OTHER -> {Node(kind, 0, "", <<0, 0>>, <<>>)}

\* The children a syntaxhighlight tag may hold.
ChildInputs == {Node(k, 0, "", sp, <<>>) : k \in {"Text", "Bold"}, sp \in Spans}

----------------------------------------------------------------------------
(* Written fragments. *)

Header == "<!DOCTYPE html><html><head>...</head><body>"

PageHeading(title) == "<h2>" \o title \o "</h2>"

PageSeparator == "<hr style=\"height: 0.0625em;background-color: #888;\" />"

Closing == "</body></html>"

OpenSpan(kind) ==
    CASE kind = "Bold" -> "<span style=\"font-weight:bold;\">"
      [] kind = "BoldItalic" -> "<span style=\"font-weight:bold;font-style:italic;\">"
      [] kind = "Italic" -> "<span style=\"font-style:italic;\">"

CloseSpan == "</span>"

\* A heading level capped at the last level HTML defines.
HeadingLevelClamped(level) == IF level + 2 > 6 THEN 6 ELSE level + 2

\* let l = level + 2
HeadingLevel(level) == level + 2

OpenHeading(level) == "<h" \o ToString(HeadingLevel(level)) \o ">"

CloseHeading(level) == "</h" \o ToString(HeadingLevel(level)) \o ">"

\* &page_text[start..end] is defined when start <= end <= len; otherwise the
\* slice panics.
InRange(text, start, end) == start <= end /\ end <= Len(text)

\* A slice that loses its first byte.
SliceDroppingFirst(text, start, end) == SubSeq(text, start + 2, end)

\* &page_text[start..end]
Slice(text, start, end) == SubSeq(text, start + 1, end)

----------------------------------------------------------------------------
(* write_nodes calls. *)

Top == stack[Len(stack)]

SetTop(st, f) == [st EXCEPT ![Len(st)] = f]

Pop(st) == SubSeq(st, 1, Len(st) - 1)

\* A call whose italic flag starts set.
CallItalicSet(st) ==
    Append(st, [is_bold_open |-> FALSE, is_bold_italic_open |-> FALSE,
                is_italic_open |-> TRUE, node |-> NoNode, child |-> NoNode,
                at |-> "nodes", n |-> 0, seen |-> <<>>])

\* A call that takes over the flags of its caller.
CallSharingFlags(st) ==
    Append(st, [is_bold_open |-> IF st = <<>> THEN FALSE ELSE st[Len(st)].is_bold_open,
                is_bold_italic_open |->
                    IF st = <<>> THEN FALSE ELSE st[Len(st)].is_bold_italic_open,
                is_italic_open |-> IF st = <<>> THEN FALSE ELSE st[Len(st)].is_italic_open,
                node |-> NoNode, child |-> NoNode, at |-> "nodes", n |-> 0,
                seen |-> <<>>])

\* Entering write_nodes: a new call with its three flags false, no node
\* matched yet, at the head of its node loop.  node is the loop variable of
\* the node loop and child the one of the loop over a syntaxhighlight tag's
\* children; at tells which loop the call is in ("nodes", "sh", "ol", "ul"),
\* n counts the items of the list it is in, and seen lists the kinds of the
\* nodes its node loop has taken.
Call(st) ==
    Append(st, [is_bold_open |-> FALSE, is_bold_italic_open |-> FALSE,
                is_italic_open |-> FALSE, node |-> NoNode, child |-> NoNode,
                at |-> "nodes", n |-> 0, seen |-> <<>>])

\* The loop of a call takes the next node.
Take(f, nd) == [f EXCEPT !.node = nd, !.seen = Append(@, nd.kind)]

\* Every toggle arm flipping the bold flag.
ToggleAlwaysBold(f, kind) == [f EXCEPT !.is_bold_open = ~@]

\* The Bold / BoldItalic / Italic arms: each flips the flag of its own kind.
Toggle(f, kind) ==
    CASE kind = "Bold" -> [f EXCEPT !.is_bold_open = ~@]
      [] kind = "BoldItalic" -> [f EXCEPT !.is_bold_italic_open = ~@]
      [] kind = "Italic" -> [f EXCEPT !.is_italic_open = ~@]

FlagOf(f, kind) ==
    CASE kind = "Bold" -> f.is_bold_open
      [] kind = "BoldItalic" -> f.is_bold_italic_open
      [] kind = "Italic" -> f.is_italic_open

\* What the caller writes once the call it made for its current node returns.
After(f) ==
    CASE f.at \in {"ol", "ul"} -> "</li>"
      [] f.node.kind = "Preformatted" -> "</pre>"
      [] f.node.kind = "Heading" -> CloseHeading(f.node.level)

PageText == pages[pageIdx].text

\* pages.extend(new_pages) with the new pages put in front.
ExtendPagesInFront(all, new) == new \o all

\* pages.extend(new_pages.into_iter())
ExtendPages(all, new) == all \o new

----------------------------------------------------------------------------
(* The state after the command line is parsed and the output directory is
   confirmed: no file read yet, nothing written. *)

InitWith(budget) ==
    /\ pc = "extract"
    /\ verbose \in BOOLEAN
    /\ filesLeft \in 0..MaxFiles
    /\ reads = 0
    /\ page = NoPage
    /\ newPages = <<>>
    /\ pages = <<>>
    /\ log = <<>>
    /\ out = <<>>
    /\ pageIdx = 0
    /\ stack = <<>>
    /\ fuel = budget
    /\ kinds = {}

Init == InitWith(MaxDocNodes)

----------------------------------------------------------------------------
(* extract_pages, one step per record of the decoder. *)

\* The decoder yields a page: it is classified by its namespace and pushed
\* only in the default arm; with --verbose a message is printed in every arm.
ReadPage ==
    /\ pc = "extract"
    /\ filesLeft > 0
    /\ reads < MaxReads
    /\ \E p \in PageInputs :
        /\ page' = p
        /\ newPages' = IF Classify(p.namespace) = "content"
                       THEN Append(newPages, p) ELSE newPages
        /\ log' = IF verbose THEN Append(log, Classify(p.namespace)) ELSE log
    /\ reads' = reads + 1
    /\ UNCHANGED <<pc, verbose, filesLeft, pages, out, pageIdx, stack, fuel, kinds>>

\* The decoder yields an error: extract_pages and main return it.
ReadError ==
    /\ pc = "extract"
    /\ filesLeft > 0
    /\ pc' = "failed"
    /\ UNCHANGED <<verbose, filesLeft, reads, page, newPages, pages, log, out,
                   pageIdx, stack, fuel, kinds>>

\* The decoder is exhausted: extract_pages returns its pages and main
\* appends them to its own.
EndOfFile ==
    /\ pc = "extract"
    /\ filesLeft > 0
    /\ pages' = ExtendPages(pages, newPages)
    /\ newPages' = <<>>
    /\ page' = NoPage
    /\ filesLeft' = filesLeft - 1
    /\ UNCHANGED <<pc, verbose, reads, log, out, pageIdx, stack, fuel, kinds>>

----------------------------------------------------------------------------
(* main, the document. *)

\* Every file is read: index.html is opened and the header is written.
WriteHeader ==
    /\ pc = "extract"
    /\ filesLeft = 0
    /\ out' = Append(out, Header)
    /\ pageIdx' = 1
    /\ pc' = "pages"
    /\ UNCHANGED <<verbose, filesLeft, reads, page, newPages, pages, log, stack,
                   fuel, kinds>>

\* The page loop takes the next page: its title is written, its text is
\* parsed and write_nodes is called on the nodes.
BeginPage ==
    /\ pc = "pages"
    /\ pageIdx <= Len(pages)
    /\ out' = Append(out, PageHeading(pages[pageIdx].title))
    /\ stack' = Call(<<>>)
    /\ kinds' = {}
    /\ pc' = "render"
    /\ UNCHANGED <<verbose, filesLeft, reads, page, newPages, pages, log, pageIdx, fuel>>

\* The page loop is over: the document is closed and main returns Ok.
FinishDocument ==
    /\ pc = "pages"
    /\ pageIdx > Len(pages)
    /\ out' = Append(out, Closing)
    /\ pc' = "done"
    /\ UNCHANGED <<verbose, filesLeft, reads, page, newPages, pages, log, pageIdx,
                   stack, fuel, kinds>>

----------------------------------------------------------------------------
(* write_nodes, one step per node of the loop of the innermost call. *)

AtNodes == pc = "render" /\ Top.at = "nodes"

CanTake == AtNodes /\ fuel > 0

Untouched == UNCHANGED <<verbose, filesLeft, reads, page, newPages, pages, log, pageIdx>>

\* The bookkeeping every arm shares: the node is taken from the parser.
Taken(nd) ==
    /\ fuel' = fuel - 1
    /\ kinds' = kinds \cup {nd.kind} \cup {nd.kids[i] : i \in DOMAIN nd.kids}
    /\ Untouched

WritePreformatted ==
    /\ CanTake
    /\ \E nd \in NodeInputs("Preformatted") :
        /\ out' = Append(out, "<pre>")
        /\ stack' = Call(SetTop(stack, Take(Top, nd)))
        /\ Taken(nd)
    /\ pc' = pc

WriteHeading ==
    /\ CanTake
    /\ \E nd \in NodeInputs("Heading") :
        /\ out' = Append(out, OpenHeading(nd.level))
        /\ stack' = Call(SetTop(stack, Take(Top, nd)))
        /\ Taken(nd)
    /\ pc' = pc

WriteHorizontalDivider ==
    /\ CanTake
    /\ \E nd \in NodeInputs("HorizontalDivider") :
        /\ out' = Append(out, "<hr />")
        /\ stack' = SetTop(stack, Take(Top, nd))
        /\ Taken(nd)
    /\ pc' = pc

\* The Bold, BoldItalic and Italic arms.
WriteToggle(kind) ==
    /\ CanTake
    /\ \E nd \in NodeInputs(kind) :
        LET f == Toggle(Take(Top, nd), kind) IN
        /\ out' = Append(out, IF FlagOf(f, kind) THEN OpenSpan(kind) ELSE CloseSpan)
        /\ stack' = SetTop(stack, f)
        /\ Taken(nd)
    /\ pc' = pc

WriteBold == WriteToggle("Bold")

WriteBoldItalic == WriteToggle("BoldItalic")

WriteItalic == WriteToggle("Italic")

\* The Tag arm guarded by name == "syntaxhighlight": the loop over the
\* children of the tag starts.
WriteSyntaxHighlight ==
    /\ CanTake
    /\ \E nd \in NodeInputs("syntaxhighlight") :
        /\ stack' = SetTop(stack, [Take(Top, nd) EXCEPT !.at = "sh"])
        /\ Taken(nd)
    /\ UNCHANGED <<pc, out>>

\* The child's span written without its <pre> block.
ChildFragmentsBare(text, child) == Slice(text, child.start, child.end)

\* <pre>, the child's span of the page text, </pre>.
ChildFragments(text, child) ==
    <<"<pre>">> \o Slice(text, child.start, child.end) \o <<"</pre>">>

\* One child of a syntaxhighlight tag: its span of the page text is written
\* in a <pre> block; a span outside the text panics after <pre> is written.
WriteSyntaxHighlightChild ==
    /\ pc = "render"
    /\ Top.at = "sh"
    /\ fuel > 0
    /\ \E child \in ChildInputs :
        /\ IF InRange(PageText, child.start, child.end)
           THEN /\ out' = out \o ChildFragments(PageText, child)
                /\ pc' = pc
           ELSE /\ out' = Append(out, "<pre>")
                /\ pc' = "panicked"
        /\ stack' = SetTop(stack, [Top EXCEPT !.child = child])
        /\ Taken(child)

\* The children of the syntaxhighlight tag are exhausted.
EndSyntaxHighlight ==
    /\ pc = "render"
    /\ Top.at = "sh"
    /\ stack' = SetTop(stack, [Top EXCEPT !.at = "nodes"])
    /\ UNCHANGED <<pc, out, fuel, kinds>>
    /\ Untouched

\* Both list arms writing the unordered container.
ListTagAlwaysUnordered(kind) == "ul"

ListTag(kind) == IF kind = "OrderedList" THEN "ol" ELSE "ul"

\* The OrderedList and UnorderedList arms: the container is opened and the
\* loop over its items starts.
WriteList(kind) ==
    /\ CanTake
    /\ \E nd \in NodeInputs(kind) :
        /\ out' = Append(out, "<" \o ListTag(kind) \o ">")
        /\ stack' = SetTop(stack, [Take(Top, nd) EXCEPT !.at = ListTag(kind), !.n = 0])
        /\ Taken(nd)
    /\ pc' = pc

WriteOrderedList == WriteList("OrderedList")

WriteUnorderedList == WriteList("UnorderedList")

\* One item of a list: <li> is written and write_nodes is called on the
\* item's nodes.
WriteListItem ==
    /\ pc = "render"
    /\ Top.at \in {"ol", "ul"}
    /\ fuel > 0
    /\ out' = Append(out, "<li>")
    /\ stack' = Call(SetTop(stack, [Top EXCEPT !.n = @ + 1]))
    /\ fuel' = fuel - 1
    /\ UNCHANGED <<pc, kinds>>
    /\ Untouched

\* The items are exhausted: the container is closed.
EndList ==
    /\ pc = "render"
    /\ Top.at \in {"ol", "ul"}
    /\ out' = Append(out, "</" \o Top.at \o ">")
    /\ stack' = SetTop(stack, [Top EXCEPT !.at = "nodes"])
    /\ UNCHANGED <<pc, fuel, kinds>>
    /\ Untouched

WriteCategory ==
    /\ CanTake
    /\ \E nd \in NodeInputs("Category") :
        /\ stack' = SetTop(stack, Take(Top, nd))
        /\ Taken(nd)
    /\ UNCHANGED <<pc, out>>

\* The default arm, taken by every node without an arm of its own and by a
\* Tag whose name is not syntaxhighlight: the node's span of the page text
\* is written; a span outside the text panics.
WriteFallback ==
    /\ CanTake
    /\ \E k \in {"Text", "Tag"} : \E nd \in NodeInputs(k) :
        /\ IF InRange(PageText, nd.start, nd.end)
           THEN /\ out' = out \o Slice(PageText, nd.start, nd.end)
                /\ pc' = pc
           ELSE /\ out' = out
                /\ pc' = "panicked"
        /\ stack' = SetTop(stack, Take(Top, nd))
        /\ Taken(nd)

\* The nodes of a nested call are exhausted: it returns Ok and its caller
\* writes the closing tag of the node it recursed for.
ReturnToCaller ==
    /\ AtNodes
    /\ Len(stack) > 1
    /\ out' = Append(out, After(Pop(stack)[Len(stack) - 1]))
    /\ stack' = Pop(stack)
    /\ UNCHANGED <<pc, fuel, kinds>>
    /\ Untouched

\* The nodes of the page are exhausted: write_nodes returns Ok to main,
\* which writes the separator and moves to the next page.
ReturnToMain ==
    /\ AtNodes
    /\ Len(stack) = 1
    /\ out' = Append(out, PageSeparator)
    /\ stack' = <<>>
    /\ pageIdx' = pageIdx + 1
    /\ pc' = "pages"
    /\ UNCHANGED <<verbose, filesLeft, reads, page, newPages, pages, log, fuel, kinds>>

Render ==
    \/ WritePreformatted
    \/ WriteHeading
    \/ WriteHorizontalDivider
    \/ WriteBold
    \/ WriteBoldItalic
    \/ WriteItalic
    \/ WriteSyntaxHighlight
    \/ WriteSyntaxHighlightChild
    \/ EndSyntaxHighlight
    \/ WriteOrderedList
    \/ WriteUnorderedList
    \/ WriteListItem
    \/ EndList
    \/ WriteCategory
    \/ WriteFallback
    \/ ReturnToCaller
    \/ ReturnToMain

Next ==
    \/ ReadPage
    \/ ReadError
    \/ EndOfFile
    \/ WriteHeader
    \/ BeginPage
    \/ FinishDocument
    \/ Render

Spec == Init /\ [][Next]_vars

----------------------------------------------------------------------------
(* write_nodes alone: one call on the nodes of one content page, with an
   empty stream before it. *)

InitRender ==
    /\ pc = "render"
    /\ verbose = FALSE
    /\ filesLeft = 0
    /\ reads = 1
    /\ page = NoPage
    /\ newPages = <<>>
    /\ \E p \in PageInputs : Classify(p.namespace) = "content" /\ pages = <<p>>
    /\ log = <<>>
    /\ out = <<>>
    /\ pageIdx = 1
    /\ stack = Call(<<>>)
    /\ fuel = MaxNodes
    /\ kinds = {}

SpecRender == InitRender /\ [][Render]_vars

----------------------------------------------------------------------------
(* Vocabulary of the properties. *)

Flags(f) == <<f.is_bold_open, f.is_bold_italic_open, f.is_italic_open>>

AllFlagsFalse(f) == Flags(f) = <<FALSE, FALSE, FALSE>>

\* What the step writes.
Written == SubSeq(out', Len(out) + 1, Len(out'))

\* The step is the node loop of the innermost call taking a node; the call
\* is then at position Len(stack) of stack', with the node in its node field.
TookNode == pc = "render" /\ stack # <<>> /\ Top.at = "nodes" /\ fuel' = fuel - 1

Taker == stack'[Len(stack)]

\* The step is a call returning to a caller that stays on the stack.
ReturnedToCaller == pc = "render" /\ Len(stack) > 1 /\ Len(stack') = Len(stack) - 1

Count(seq, kind) == Cardinality({i \in DOMAIN seq : seq[i] = kind})

\* text[start:end], byte by byte.
Bytes(text, start, end) == [i \in 1..(end - start) |-> text[start + i]]

IsSpanTag(x) == x = "</span>" \/ \E k \in ToggleKinds : x = OpenSpan(k)

BespokeKinds ==
    {"Preformatted", "Heading", "HorizontalDivider", "Bold", "BoldItalic", "Italic",
     "OrderedList", "UnorderedList", "Category"}

IsCatchAll(nd) ==
    /\ nd.kind \notin BespokeKinds
    /\ ~(nd.kind = "Tag" /\ nd.name = "syntaxhighlight")

\* A fragment main writes itself: the header, a page title, a page
\* separator or the closing tags.
IsChrome(x) ==
    \/ x \in {Header, PageSeparator, Closing}
    \/ \E p \in PageInputs : x = PageHeading(p.title)

\* The titles and separators of a sequence of pages, in order.
RECURSIVE PageChrome(_)
PageChrome(ps) ==
    IF ps = <<>> THEN <<>>
    ELSE <<PageHeading(Head(ps).title), PageSeparator>> \o PageChrome(Tail(ps))

----------------------------------------------------------------------------
----------------------------------------------------------------------------
\* C2: a page the decoder yields is left out exactly when its namespace code
\* is one of 1, 2, 3, 8, 10, 14, 15, 501, 502, 1200, 1201, 1202, 2000 (meta)
\* or 6 (file); a page of any other code, 0 and 500 included, is pushed at
\* the end of the kept pages, whatever its text and the verbose flag.
C2_DenyList ==
    [][(pc = "extract" /\ reads' = reads + 1) =>
            IF page'.namespace \in {1, 2, 3, 8, 10, 14, 15, 501, 502, 1200, 1201,
                                    1202, 2000, 6}
            THEN newPages' = newPages
            ELSE newPages' = Append(newPages, page')]_vars

\* With --verbose, the user blog page was kept and a talk page after it was not.
C2_Witness ==
    /\ verbose
    /\ reads = 2
    /\ page.namespace = 1
    /\ Len(newPages) = 1
    /\ newPages[1].namespace = 500

----------------------------------------------------------------------------
----------------------------------------------------------------------------
\* C4: as long as the tree of the page holds no Bold, BoldItalic or Italic
\* node at any depth, the flags of every active call are false and no
\* opening or closing span is written.
C4_NoToggleNoSpan ==
    [][(kinds' \cap ToggleKinds = {}) =>
            /\ \A i \in DOMAIN stack' : AllFlagsFalse(stack'[i])
            /\ \A i \in DOMAIN Written : ~IsSpanTag(Written[i])]_vars

\* A text inside a heading inside a preformatted block, no toggle anywhere.
C4_Witness ==
    /\ kinds = {"Preformatted", "Heading", "Text"}
    /\ Len(stack) = 3
    /\ Len(out) > 2

----------------------------------------------------------------------------
\* C5: a node taken by the default arm (a Tag not named syntaxhighlight
\* included) whose offsets are within the page text writes exactly the bytes
\* start..end of the page's source text, whatever was written before and at
\* any depth; no call is made for its children and no flag changes.
C5_OffsetFidelity ==
    [][(/\ TookNode
        /\ IsCatchAll(Taker.node)
        /\ Taker.node.start <= Taker.node.end
        /\ Taker.node.end <= Len(pages[pageIdx].text)) =>
            /\ Written = Bytes(pages[pageIdx].text, Taker.node.start, Taker.node.end)
            /\ Len(stack') = Len(stack)
            /\ Flags(Taker) = Flags(Top)
            /\ pc' = "render"]_vars

\* A nowiki tag holding a Bold, inside a heading: bytes 1..3 of the long text.
C5_Witness ==
    /\ Len(stack) = 2
    /\ Top.node.kind = "Tag"
    /\ Top.node.name = "nowiki"
    /\ Top.node.kids = <<"Bold">>
    /\ out = <<"<h3>", "b", "&">>
    /\ AllFlagsFalse(Top)

----------------------------------------------------------------------------
\* C6: a Tag named syntaxhighlight writes nothing of its own; each of its
\* children, in order, writes <pre>, the bytes start..end of the page's
\* source text, </pre>, with no call made for it and no flag changed even
\* when the child is a Bold; the end of the children writes nothing.
C6_SyntaxHighlight ==
    [][/\ (TookNode /\ Taker.node.kind = "Tag" /\ Taker.node.name = "syntaxhighlight") =>
            /\ Written = <<>>
            /\ Len(stack') = Len(stack)
            /\ Flags(Taker) = Flags(Top)
       /\ (/\ pc = "render" /\ stack # <<>> /\ Top.at = "sh" /\ fuel' = fuel - 1
           /\ Taker.child.start <= Taker.child.end
           /\ Taker.child.end <= Len(pages[pageIdx].text)) =>
            /\ Written = <<"<pre>">>
                         \o Bytes(pages[pageIdx].text, Taker.child.start, Taker.child.end)
                         \o <<"</pre>">>
            /\ stack' = SetTop(stack, [Top EXCEPT !.child = Taker.child])
       /\ (pc = "render" /\ stack # <<>> /\ Top.at = "sh" /\ fuel' = fuel) =>
            /\ Written = <<>>
            /\ Len(stack') = Len(stack)
            /\ Flags(Taker) = Flags(Top)]_vars

\* Two children, the second a Bold: two <pre> blocks and no flag set.
C6_Witness ==
    /\ Len(stack) = 1
    /\ Top.at = "sh"
    /\ Top.child.kind = "Bold"
    /\ out = <<"<pre>", "a", "<", "</pre>", "<pre>", "a", "<", "</pre>">>
    /\ AllFlagsFalse(Top)

----------------------------------------------------------------------------
\* C7: a Heading of level L writes <h(L+2)> and starts a call for its
\* children; when that call returns, </h(L+2)> is written.  Nothing caps the
\* level: level 1 gives h3 and level 6 gives h8.
C7_HeadingRemap ==
    [][/\ (TookNode /\ Taker.node.kind = "Heading") =>
            /\ Written = <<"<h" \o ToString(Taker.node.level + 2) \o ">">>
            /\ Len(stack') = Len(stack) + 1
       /\ (/\ ReturnedToCaller
           /\ stack'[Len(stack')].at = "nodes"
           /\ stack'[Len(stack')].node.kind = "Heading") =>
            Written = <<"</h" \o ToString(stack'[Len(stack')].node.level + 2) \o ">">>]_vars

\* A level 6 heading around a text, closed.
C7_Witness ==
    /\ Len(stack) = 1
    /\ Top.node.kind = "Heading"
    /\ Top.node.level = 6
    /\ Len(out) > 2
    /\ out[1] = "<h8>"
    /\ out[Len(out)] = "</h8>"

----------------------------------------------------------------------------
\* C8: an OrderedList / UnorderedList writes <ol> / <ul>; each item, in
\* order, writes <li>, starts a call on the item's nodes and, when the call
\* returns, writes </li>; after the last item the matching </ol> / </ul> is
\* written.  None of these steps fails, with no item or no node as well.
C8_ListStructure ==
    [][/\ (TookNode /\ Taker.node.kind \in {"OrderedList", "UnorderedList"}) =>
            /\ Written = <<IF Taker.node.kind = "OrderedList" THEN "<ol>" ELSE "<ul>">>
            /\ Len(stack') = Len(stack)
            /\ pc' = "render"
       /\ (/\ pc = "render" /\ stack # <<>>
           /\ Top.node.kind \in {"OrderedList", "UnorderedList"}
           /\ Top.at # "nodes") =>
            /\ pc' = "render"
            /\ \/ /\ Len(stack') = Len(stack) + 1
                  /\ Written = <<"<li>">>
                  /\ Taker.at = Top.at
               \/ /\ Len(stack') = Len(stack)
                  /\ Written = <<IF Top.node.kind = "OrderedList" THEN "</ol>" ELSE "</ul>">>
                  /\ Taker.at = "nodes"
       /\ (/\ ReturnedToCaller
           /\ stack'[Len(stack')].node.kind \in {"OrderedList", "UnorderedList"}) =>
            /\ Written = <<"</li>">>
            /\ stack'[Len(stack')].at # "nodes"
            /\ pc' = "render"]_vars

\* An unordered list of one item holding a text, closed.
C8_Witness ==
    /\ Len(stack) = 1
    /\ Top.at = "nodes"
    /\ out = <<"<ul>", "<li>", "a", "<", "</li>", "</ul>">>

----------------------------------------------------------------------------
\* C9 (as stated): in a run over several pages an offset span outside the
\* page text ends the rendering of its page only: whenever the program has
\* stopped, the page loop has passed every kept page and the document is
\* closed.
C9_ErrorsLocalToPage ==
    (Len(pages) > 1 /\ pc \in {"done", "panicked"}) =>
        /\ pageIdx > Len(pages)
        /\ out[Len(out)] = Closing

----------------------------------------------------------------------------
\* C10: nothing is written while the files are read, nor after a dump error;
\* the pages kept from a file follow, in dump order, those of the files
\* before it, and the vector is not touched once the header is written; and
\* in a run that completes, the header, the page titles, the separators and
\* the closing tags written are: the header, then for each kept page in
\* order its title and later its separator, then the closing tags.
C10_AssemblyOrder ==
    /\ [](pc \in {"extract", "failed"} => out = <<>>)
    /\ [](pc = "done" =>
            SelectSeq(out, IsChrome) = <<Header>> \o PageChrome(pages) \o <<Closing>>)
    /\ [][/\ filesLeft' # filesLeft => pages' = pages \o newPages
          /\ filesLeft' = filesLeft => pages' = pages
          /\ (pc = "extract" /\ reads' = reads + 1) =>
                \A i \in DOMAIN newPages : newPages'[i] = newPages[i]]_vars

\* Two kept pages, the first with a body, in a completed run.
C10_Witness ==
    /\ pc = "done"
    /\ Len(pages) = 2
    /\ pages[1].title = "Q"
    /\ pages[2].title = "P"
    /\ out = <<Header, PageHeading("Q"), "<hr />", PageSeparator,
               PageHeading("P"), PageSeparator, Closing>>

====
